---- MODULE Spec2Model ----
(***************************************************************************)
(* libcvmfs path resolution (cvmfs/libcvmfs.cc): expand_path, expand_ppath *)
(* and the cvmfs_* file operations built on them, as a stack machine whose *)
(* steps are the basic blocks of expand_path between two recursive calls.  *)
(*                                                                         *)
(* A string is a sequence of one-character strings: "/a/.." is             *)
(* <<"/", "a", "/", ".", ".">> and the empty string is << >>.               *)
(***************************************************************************)
EXTENDS Integers, Sequences, FiniteSets, TLC

VARIABLES
  fs,          \* content of the repository backend: path -> entry
  ctxmp,       \* opts.mountpoint handed to cvmfs_context::Create at attach
  mountpoint,  \* the file-static string ::mountpoint
  errno,       \* the process-wide error indicator
  op,          \* the cvmfs_* call in progress, or Idle
  stack,       \* activations of expand_path, innermost last
  ret,         \* what the expand_path that returned last handed back
  last,        \* outcome of the cvmfs_* call completed last
  prev,        \* outcome of the call completed before that one
  ncalls,      \* number of cvmfs_* calls issued
  nchanges,    \* number of times the backend content changed (remounts)
  ev,          \* what the step taken last did (backend call, return, ...)
  attrSeq,     \* paths GetAttr was issued on during the call, first use order
  hist,        \* facts about the resolution of the call in progress
  remount,     \* the cvmfs_remount call in progress and those that returned
  ctxs,        \* the repositories attached: context -> its state
  opt,         \* parse_options: the option string left and the options set
  letter       \* the letter command of cvmfs_swissknife: its run

\* state of the path resolution and of the file operations
pathVars == <<fs, ctxmp, mountpoint, errno, op, stack, ret, last, prev, ncalls,
              nchanges, ev, attrSeq, hist>>

\* state of the other operations of the library
libVars == <<remount, ctxs, opt, letter>>

vars == <<pathVars, libVars>>

----------------------------------------------------------------------------
(* Program constants *)

\* depth > 1000 is the symlink recursion limit of expand_path
kSymlinkLimit == 1000

ENOENT == 2
EIO == 5
EBADF == 9
ENOTDIR == 20
EINVAL == 22
ELOOP == 40

(* Bounds of the model *)

\* number of cvmfs_* calls in one behaviour
MaxCalls == 2
\* generated caller paths have at most this many components
MaxComps == 2
\* chains of symlinks run up to kSymlinkLimit + MaxOver links
MaxOver == 2

----------------------------------------------------------------------------
(* Strings *)

Slash == "/"
Root == <<"/">>
Empty == << >>

HasSlash(s) == \E i \in 1..Len(s) : s[i] = Slash

\* std::string::find_last_of('/'), 1-based; 0 stands for npos
FindLastSlash(s) ==
  IF HasSlash(s)
    THEN CHOOSE i \in 1..Len(s) :
           s[i] = Slash /\ \A j \in (i+1)..Len(s) : s[j] # Slash
    ELSE 0

GetParentPath(path) ==
  LET idx == FindLastSlash(path)
  IN IF idx # 0 THEN SubSeq(path, 1, idx - 1) ELSE Empty

GetFileName(path) ==
  LET idx == FindLastSlash(path)
  IN IF idx # 0 THEN SubSeq(path, idx + 1, Len(path)) ELSE path

Dot == <<".">>
DotDot == <<".", ".">>

\* strncmp(s, pre, strlen(pre)) == 0, s being NUL-terminated
StrNCmpEq(s, pre) ==
  /\ Len(s) >= Len(pre)
  /\ \A i \in 1..Len(pre) : s[i] = pre[i]

\* s[len] is '/' or the terminating NUL (len 0-based)
BoundaryAt(s, len) == Len(s) = len \/ (Len(s) > len /\ s[len + 1] = Slash)

----------------------------------------------------------------------------------------------------------------------------------------
(* The repository backend (cvmfs_context).  Its content is a table of      *)
(* entries keyed by the path inside the repository, the root being "/",    *)
(* and optionally a chain of symlinks /1 -> 2, /2 -> 3, ..., /L -> L+1     *)
(* ending at the regular file /L+1 (chain is L, or 0 for no chain).        *)

NoPath == <<"(none)">>

Dir(p) == <<p, "dir", Empty>>
File(p) == <<p, "file", Empty>>
Link(p, t) == <<p, "link", t>>
\* an entry the backend cannot load (kind "bad") and a symlink whose target
\* it cannot read (kind "badlink") stand for its failures
Bad(p) == <<p, "bad", Empty>>
BadLink(p) == <<p, "badlink", Empty>>

MkFS(entries, L) ==
  [tab |-> [p \in {e[1] : e \in entries} |->
              LET e == CHOOSE e \in entries : e[1] = p
              IN [kind |-> e[2], target |-> e[3]]],
   chain |-> L]

Digit == <<"0","1","2","3","4","5","6","7","8","9">>
IsDigit(c) == \E i \in 1..10 : Digit[i] = c
DigitVal(c) == (CHOOSE i \in 1..10 : Digit[i] = c) - 1

RECURSIVE Dec(_)
Dec(n) == IF n < 10 THEN <<Digit[n + 1]>>
          ELSE Dec(n \div 10) \o <<Digit[(n % 10) + 1]>>

RECURSIVE DecVal(_)
DecVal(s) == IF Len(s) = 0 THEN 0
             ELSE 10 * DecVal(SubSeq(s, 1, Len(s) - 1)) + DigitVal(s[Len(s)])

\* i when path is "/" and the decimal numeral of i >= 1, else 0
ChainIndex(path) ==
  IF /\ Len(path) >= 2
     /\ path[1] = Slash
     /\ \A i \in 2..Len(path) : IsDigit(path[i])
     /\ path[2] # "0"
    THEN DecVal(Tail(path))
    ELSE 0

Absent == [kind |-> "none", target |-> Empty]

\* the entry the backend holds for path
Lookup(f, path) ==
  IF path \in DOMAIN f.tab THEN f.tab[path]
  ELSE IF f.chain > 0 /\ ChainIndex(path) \in 1..f.chain
    THEN [kind |-> "link", target |-> Dec(ChainIndex(path) + 1)]
  ELSE IF f.chain > 0 /\ ChainIndex(path) = f.chain + 1
    THEN [kind |-> "file", target |-> Empty]
  ELSE Absent

\* cvmfs_context::GetAttr: 0 and the attributes, -ENOENT, or -EIO
CtxGetAttr(f, path) ==
  LET e == Lookup(f, path)
  IN IF e.kind = "none" THEN [rc |-> -ENOENT, islnk |-> FALSE]
     ELSE IF e.kind = "bad" THEN [rc |-> -EIO, islnk |-> FALSE]
     ELSE [rc |-> 0, islnk |-> e.kind \in {"link", "badlink"}]

\* cvmfs_context::Readlink: 0 and the target, -ENOENT, -EIO, or -EINVAL for
\* an entry that is no symlink
CtxReadlink(f, path) ==
  LET e == Lookup(f, path)
  IN IF e.kind = "none" THEN [rc |-> -ENOENT, target |-> Empty]
     ELSE IF e.kind \in {"bad", "badlink"} THEN [rc |-> -EIO, target |-> Empty]
     ELSE IF e.kind # "link" THEN [rc |-> -EINVAL, target |-> Empty]
     ELSE [rc |-> 0, target |-> e.target]


\* the handle Open hands out, and one that is not open
FirstFd == 3
Handles == {FirstFd, FirstFd + 1}

\* Open: a handle, or a negative error code
CtxOpen(f, path) ==
  LET e == Lookup(f, path)
  IN CASE e.kind = "none" -> -ENOENT
       [] e.kind = "bad" -> -EIO
       [] OTHER -> FirstFd

\* ListDirectory: 0, or a negative error code
CtxListDirectory(f, path) ==
  LET e == Lookup(f, path)
  IN CASE e.kind = "none" -> -ENOENT
       [] e.kind = "bad" -> -EIO
       [] e.kind = "dir" -> 0
       [] OTHER -> -ENOTDIR

\* Close: 0, or a negative error code for a handle that is not open
CtxClose(fd) == IF fd = FirstFd THEN 0 ELSE -EBADF

----------------
(* Repository contents and caller paths the model is run on *)

BaseEntries ==
  { Dir(Root),
    Dir(<<"/","a">>), Dir(<<"/","a","/","b">>), File(<<"/","a","/","c">>),
    Link(<<"/","a","/","u">>, <<".",".","/","t">>),
    Link(<<"/","a","/","v">>, <<".",".","/",".",".","/","t">>),
    Dir(<<"/","x">>), Dir(<<"/","x","/","y">>), File(<<"/","x","/","t">>),
    Link(<<"/","x","/","y","/","l">>, <<".",".","/","t">>),
    File(<<"/","t">>),
    Dir(<<"/","m">>), Dir(<<"/","m","/","r">>),
    File(<<"/","m","/","r","/","t">>),
    Dir(<<"/","e">>), File(<<"/","e","/","p">>),
    Link(<<"/","d">>, <<"x","/","y">>),
    Link(<<"/","k">>, <<"l">>) }

\* targets of the symlink /l, one repository content for each
LTargets ==
  { <<"t">>, <<"a">>, <<"a","/","b","/",".",".","/","c">>,
    <<".",".","/","t">>, <<".">>, <<"n">>,
    <<"l">>, <<"k">>, <<"d","/","l">>,
    <<"/">>, <<"/","t">>, <<"/","m","/","r","/","t">>, <<"/","m","/","r">>,
    <<"/","m","/","r","x">>, <<"/","e","/","p">>, <<"/","e","/","n">> }

ChainLens == {kSymlinkLimit + k : k \in 0..MaxOver}

\* a chain that is walked twice within the limit: more than half of it
HalfChain == kSymlinkLimit \div 2 + 1

\* /l leads through the chain to its end, back to "/" and through the chain
\* once more
TwiceThroughChain == Link(<<"/","l">>, <<"1","/",".",".","/","1">>)

Contents ==
  {MkFS(BaseEntries, 0)}
    \cup {MkFS(BaseEntries \cup {Link(<<"/","l">>, t)}, 0) : t \in LTargets}
    \cup {MkFS(BaseEntries \cup {e}, 0) :
            e \in {Bad(<<"/","l">>), BadLink(<<"/","l">>)}}
    \cup {MkFS(BaseEntries, L) : L \in ChainLens}
    \cup {MkFS(BaseEntries \cup {TwiceThroughChain}, HalfChain)}

Mountpoints == { <<"/","m","/","r">> }

Comps == { Empty, Dot, DotDot, <<"a">>, <<"d">> }

RECURSIVE GenPaths(_)
GenPaths(n) ==
  IF n = 0 THEN {Empty}
  ELSE {p \o <<Slash>> \o c : p \in GenPaths(n - 1), c \in Comps}

MorePaths ==
  { Empty, <<"a">>, Dot, DotDot, <<"a","/",".",".">>,
    <<"/","1">>, <<"/","l">>, <<"/","l","/",".",".">>,
    <<"/","a","/",".","/","b","/",".",".","/","c">>,
    <<"/","a","/",".",".","/",".",".">>,
    <<"/","a","/","b","/",".",".","/",".",".","/",".",".">>,
    <<"/","d","/","l">>, <<"/","d","/",".",".">>, <<"/","d","/",".">>,
    <<"/","x","/","y","/","l">>, <<"/","a","/","u">>, <<"/","a","/","v">>,
    <<"/","k","/","b">>,
    <<"/","t","/",".",".">>, <<"/","a","/","c">>,
    <<"/","m","/","r","/","t">>, <<"/","e","/","p">> }

Paths == UNION {GenPaths(n) : n \in 1..MaxComps} \cup MorePaths

----------------------------------------------------------------------------
(* expand_path: the decisions its code takes *)

\* the candidate built without the '/' between parent and name
AppendName_NoSlash(buf, fname) == buf \o fname

\* lines 280-283: a '/' unless buf already ends with one, then fname
AppendName(buf, fname) ==
  (IF Len(buf) = 0 \/ buf[Len(buf)] # Slash THEN buf \o <<Slash>> ELSE buf)
    \o fname

\* ".." without the test for the root
DotDotStep_NoRootCheck(expanded) ==
  [rc |-> 0, err |-> 0,
   out |-> IF GetParentPath(expanded) = Empty THEN Root
           ELSE GetParentPath(expanded)]

\* ".." leaving the empty string where the parent is the root
DotDotStep_KeepEmpty(expanded) ==
  IF expanded = Root
    THEN [rc |-> -1, err |-> ENOENT, out |-> NoPath]
    ELSE [rc |-> 0, err |-> 0, out |-> GetParentPath(expanded)]

\* lines 254-264: ".." applied to the expanded parent
DotDotStep(expanded) ==
  IF expanded = Root
    THEN [rc |-> -1, err |-> ENOENT, out |-> NoPath]
    ELSE [rc |-> 0, err |-> 0,
          out |-> IF GetParentPath(expanded) = Empty THEN Root
                  ELSE GetParentPath(expanded)]

\* line 297
OverLimit(depth) == depth > kSymlinkLimit

\* the link target expanded at the depth of the link
NextDepth_Same(depth) == depth

\* line 348: the depth handed to the expansion of a link target
NextDepth(depth) == depth + 1

\* every failure of the backend reported as "no such entry"
BackendErrno_NotFound(rc) == ENOENT

\* lines 288, 314: errno = -rc
BackendErrno(rc) == -rc

\* no entry taken for a symlink
S_ISLNK_Never(st) == FALSE

\* line 292: S_ISLNK(st.st_mode) on what GetAttr filled in
S_ISLNK(st) == st.islnk

\* GetAttr asked about the path as the caller gave it
GetAttrPath_CallerPath(frame) == frame.path

\* line 286: GetAttr is asked about the candidate buf of the activation
GetAttrPath(frame) == frame.buf

\* line 317: ln_buf[0] == '/'
IsAbsolute(ln) == Len(ln) > 0 /\ ln[1] = Slash

\* lines 320-322: the target lies under the mountpoint mp
UnderMountpoint(ln, mp) == StrNCmpEq(ln, mp) /\ BoundaryAt(ln, Len(mp))

\* lines 324-327: ln_buf + len, and "/" when nothing is left
StripMountpoint(ln, mp) ==
  SubSeq(ln, Len(mp) + 1, Len(ln)) \o (IF Len(ln) = Len(mp) THEN Root ELSE Empty)

\* a relative target taken from the root of the repository
RelativeTo_Root(buf, ln) == <<Slash>> \o ln

\* lines 339-341: relative to the directory of the symlink buf
RelativeTo(buf, ln) == GetParentPath(buf) \o <<Slash>> \o ln

\* lines 317-342: the path expand_path goes on with after reading target ln
\* of the symlink buf; ok is FALSE when the target is refused
LinkContinuation(buf, ln, mp) ==
  IF IsAbsolute(ln)
    THEN IF UnderMountpoint(ln, mp)
           THEN [ok |-> TRUE, path |-> StripMountpoint(ln, mp)]
           ELSE [ok |-> FALSE, path |-> NoPath]
    ELSE [ok |-> TRUE, path |-> RelativeTo(buf, ln)]

----------------------------------------------------------------------------
(* State of the machine *)

Frame(path, depth) ==
  [path |-> path, depth |-> depth, pc |-> "start", buf |-> Empty]

Top == stack[Len(stack)]
Pop == SubSeq(stack, 1, Len(stack) - 1)
SetTop(f) == [stack EXCEPT ![Len(stack)] = f]

NoRet == [valid |-> FALSE, rc |-> 0, out |-> NoPath]
Ret(rc, out) == [valid |-> TRUE, rc |-> rc, out |-> out]

Idle == [name |-> "idle", path |-> Empty, pc |-> "idle", lpath |-> NoPath]

NoCall == [valid |-> FALSE, name |-> "idle", path |-> Empty, resolved |-> FALSE,
           lpath |-> NoPath, rc |-> 0, errno |-> 0]

\* type: the step; path: the path it acted on; target: the link target read;
\* rc: the status it produced; out: the path it produced; depth: its depth
NoEv == [type |-> "none", path |-> NoPath, target |-> NoPath, rc |-> 0,
         out |-> NoPath, depth |-> 0]
Ev(type, path, target, rc, out, depth) ==
  [type |-> type, path |-> path, target |-> target, rc |-> rc, out |-> out,
   depth |-> depth]

\* absTarget, absCont, afterAbs: the absolute link target read last, what the
\* resolution went on with, whether a backend call followed; ddRoot: ".."
\* met the root; fail, afterFail: the first failure code of a backend call
\* of the resolution, whether a backend call followed; readlinks: number of
\* Readlink calls of the resolution; resolvedTo: the path the resolution
\* produced; ops, opPath: number of backend operations of the cvmfs_* call
\* itself and the path of the last one
NoHist == [absTarget |-> NoPath, absCont |-> NoPath, afterAbs |-> 0,
           ddRoot |-> FALSE, fail |-> 0, afterFail |-> 0, readlinks |-> 0,
           resolvedTo |-> NoPath, ops |-> 0, opPath |-> NoPath]

InSeq(x, q) == \E i \in 1..Len(q) : q[i] = x

\* a backend call of the resolution and its status rc are noted in hist
NoteBackend(h, rc) ==
  [h EXCEPT !.afterAbs = IF h.absTarget # NoPath THEN 1 ELSE @,
            !.afterFail = IF h.fail # 0 THEN 1 ELSE @,
            !.fail = IF h.fail = 0 THEN rc ELSE @]

\* a Readlink call of the resolution
NoteReadlink(h, rc) == [NoteBackend(h, rc) EXCEPT !.readlinks = @ + 1]

\* no cvmfs_remount called yet; pc: where the call in progress stands;
\* calls: RemountStart calls it made; retval: what RemountStart returned;
\* rc: what cvmfs_remount returned; log: retval and rc of the calls so far
NoRemount == [pc |-> "idle", calls |-> 0, retval |-> "none", rc |-> 0,
              log |-> << >>]

\* contexts a client may hold
MaxCtx == 3
CtxIds == 1..MaxCtx

\* no repository attached through cvmfs_attach_repo; mp: opts.mountpoint the
\* context was created with; read: the mountpoint the resolution running on
\* the context read last
Detached == [attached |-> FALSE, mp |-> NoPath, read |-> NoPath]
NoContexts == [c \in CtxIds |-> Detached]

\* parse_options not running; tokens: the tokens the option string was put
\* together from; input: the option string; pos, next: the places of the
\* pointers "options" and "next" in it; name, value: the strings of the
\* pass in progress; o: the options; applied: name and value of the
\* set_option calls so far; result: what parse_options returned; ctx: what
\* cvmfs_attach_repo returned
NoOpt == [pc |-> "idle", tokens |-> << >>, input |-> Empty, pos |-> 1,
          next |-> 1, name |-> Empty, value |-> Empty,
          o |-> << >>, applied |-> << >>, result |-> 0, ctx |-> "none"]

\* the letter command not running; sflag, loop, cacrl: the options -s and
\* -l are given, the path of -z is not empty; stdin: what is left of the
\* standard input; text: the letter text; exit_code: the variable of that
\* name; ret: what Main returned; verified: a letter went through the
\* verification; lastv: what the last verification found (Letter::Verify
\* ok, whitelist expired, certificate verified against the whitelist)
NoVerdict == [ok |-> FALSE, expired |-> FALSE, cert |-> FALSE]
\* sign mode: algo: the option -a (none, a known or an unknown name);
\* retry: the variable of that name; prompts: passwords asked for; failed:
\* loads that failed after a prompt; loaded: the private key is loaded;
\* keysMatch: KeysMatch held; signed: Letter::Sign was called, with the
\* algorithm signedWith
NoLetter == [pc |-> "idle", sflag |-> FALSE, loop |-> FALSE, cacrl |-> FALSE,
             stdin |-> Empty, text |-> Empty, exit_code |-> 0, ret |-> -1,
             verified |-> FALSE, lastv |-> NoVerdict,
             algo |-> "none", retry |-> 0, prompts |-> 0, failed |-> 0,
             loaded |-> FALSE, keysMatch |-> FALSE, signed |-> FALSE,
             signedWith |-> "none"]

\* operations resolving the whole path, and those resolving the parent only
PathOps == {"stat", "open", "listdir"}
PPathOps == {"lstat", "readlink"}

Init ==
  /\ fs \in Contents
  /\ ctxmp \in Mountpoints
  /\ mountpoint = Empty
  /\ errno = 0
  /\ op = Idle
  /\ stack = << >>
  /\ ret = NoRet
  /\ last = NoCall
  /\ prev = NoCall
  /\ ncalls = 0
  /\ nchanges = 0
  /\ ev = NoEv
  /\ attrSeq = << >>
  /\ hist = NoHist
  /\ remount = NoRemount
  /\ ctxs = NoContexts
  /\ opt = NoOpt
  /\ letter = NoLetter

----------------------------------------------------------------------------
(* The cvmfs_* calls: entry *)

StartCall(name, path) ==
  /\ op = Idle
  /\ ncalls < MaxCalls
  /\ op' = [name |-> name, path |-> path, pc |-> "entry", lpath |-> NoPath]
  /\ ncalls' = ncalls + 1
  /\ ret' = NoRet
  /\ ev' = Ev("call", path, NoPath, 0, NoPath, 0)
  /\ attrSeq' = << >>
  /\ hist' = NoHist
  /\ UNCHANGED <<fs, ctxmp, mountpoint, errno, stack, last, prev, nchanges, libVars>>

\* the first call of a client: any operation on any path
CallFirst ==
  /\ ncalls = 0
  /\ \E name \in {"stat"} \cup PPathOps, path \in Paths : StartCall(name, path)

\* a client whose path was resolved calls cvmfs_stat on the same path or on
\* the path the library resolved for it
CallAgain ==
  /\ ncalls > 0
  /\ last.valid /\ last.resolved
  /\ \E path \in {last.path, last.lpath} : StartCall("stat", path)

\* the call returns to the client
Finish(rc, resolved, lpath, err) ==
  /\ last' = [valid |-> TRUE, name |-> op.name, path |-> op.path,
              resolved |-> resolved, lpath |-> lpath, rc |-> rc, errno |-> err]
  /\ prev' = last
  /\ errno' = err
  /\ op' = Idle

\* cvmfs_stat 424, cvmfs_open 379, cvmfs_listdir 460: expand_path(path)
OpExpandPath ==
  /\ op.pc = "entry" /\ op.name \in PathOps
  /\ stack' = <<Frame(op.path, 0)>>
  /\ op' = [op EXCEPT !.pc = "path_wait"]
  /\ ev' = Ev("enter", op.path, NoPath, 0, NoPath, 0)
  /\ UNCHANGED <<fs, ctxmp, mountpoint, errno, ret, last, prev, ncalls, nchanges, libVars,
                 attrSeq, hist>>

\* expand_ppath, lines 359-362: a path without parent is returned as it is
PPathNoParent ==
  /\ op.pc = "entry" /\ op.name \in PPathOps
  /\ GetParentPath(op.path) = Empty
  /\ op' = [op EXCEPT !.pc = "delegate", !.lpath = op.path]
  /\ ev' = Ev("ppath", op.path, NoPath, 0, op.path, 0)
  /\ hist' = [hist EXCEPT !.resolvedTo = op.path]
  /\ UNCHANGED <<fs, ctxmp, mountpoint, errno, stack, ret, last, prev, ncalls, nchanges, libVars,
                 attrSeq>>

\* expand_ppath, line 364: expand_path(p_path)
PPathExpandParent ==
  /\ op.pc = "entry" /\ op.name \in PPathOps
  /\ GetParentPath(op.path) # Empty
  /\ stack' = <<Frame(GetParentPath(op.path), 0)>>
  /\ op' = [op EXCEPT !.pc = "ppath_wait"]
  /\ ev' = Ev("enter", GetParentPath(op.path), NoPath, 0, NoPath, 0)
  /\ UNCHANGED <<fs, ctxmp, mountpoint, errno, ret, last, prev, ncalls, nchanges, libVars,
                 attrSeq, hist>>

----------------------------------------------------------------------------
(* expand_path *)

Running == stack # << >>

\* the activation returns rc and expanded_path to its caller
Return(rc, out) ==
  /\ stack' = Pop
  /\ ret' = Ret(rc, out)

\* line 249, fname == "..": expand the parent first (line 250)
EnterDotDot ==
  /\ Running /\ Top.pc = "start"
  /\ GetFileName(Top.path) = DotDot
  /\ stack' = SetTop([Top EXCEPT !.pc = "dotdot_wait"])
                \o <<Frame(GetParentPath(Top.path), Top.depth)>>
  /\ ev' = Ev("enter", GetParentPath(Top.path), NoPath, 0, NoPath, Top.depth)
  /\ UNCHANGED <<fs, ctxmp, mountpoint, errno, op, ret, last, prev, ncalls, nchanges, libVars,
                 attrSeq, hist>>

\* lines 268-269, p_path != "": expand the parent first
EnterParent ==
  /\ Running /\ Top.pc = "start"
  /\ GetFileName(Top.path) # DotDot
  /\ GetParentPath(Top.path) # Empty
  /\ stack' = SetTop([Top EXCEPT !.pc = "parent_wait"])
                \o <<Frame(GetParentPath(Top.path), Top.depth)>>
  /\ ev' = Ev("enter", GetParentPath(Top.path), NoPath, 0, NoPath, Top.depth)
  /\ UNCHANGED <<fs, ctxmp, mountpoint, errno, op, ret, last, prev, ncalls, nchanges, libVars,
                 attrSeq, hist>>

\* lines 267-283 with p_path == "": buf is "/" and fname
EnterTopLevel ==
  /\ Running /\ Top.pc = "start"
  /\ GetFileName(Top.path) # DotDot
  /\ GetParentPath(Top.path) = Empty
  /\ stack' = SetTop([Top EXCEPT !.pc = "getattr",
                                 !.buf = AppendName(Empty, GetFileName(Top.path))])
  /\ ev' = Ev("append", Empty, NoPath, 0,
              AppendName(Empty, GetFileName(Top.path)), Top.depth)
  /\ UNCHANGED <<fs, ctxmp, mountpoint, errno, op, ret, last, prev, ncalls, nchanges, libVars,
                 attrSeq, hist>>

\* lines 251-253 and 270-272: the expansion of the parent failed
ParentFailed ==
  /\ Running /\ Top.pc \in {"dotdot_wait", "parent_wait"}
  /\ ret.valid /\ ret.rc # 0
  /\ Return(-1, NoPath)
  /\ ev' = Ev("propagate", Top.path, NoPath, -1, NoPath, Top.depth)
  /\ UNCHANGED <<fs, ctxmp, mountpoint, errno, op, last, prev, ncalls, nchanges, libVars,
                 attrSeq, hist>>

\* lines 254-264: ".." on the expanded parent
DotDotReturn ==
  /\ Running /\ Top.pc = "dotdot_wait"
  /\ ret.valid /\ ret.rc = 0
  /\ LET d == DotDotStep(ret.out)
     IN /\ Return(d.rc, d.out)
        /\ errno' = IF d.rc # 0 THEN d.err ELSE errno
        /\ hist' = IF ret.out = Root THEN [hist EXCEPT !.ddRoot = TRUE] ELSE hist
        /\ ev' = Ev("dotdot", ret.out, NoPath, d.rc, d.out, Top.depth)
  /\ UNCHANGED <<fs, ctxmp, mountpoint, op, last, prev, ncalls, nchanges, libVars, attrSeq>>

\* lines 274-277: "." is the expanded parent
DotReturn ==
  /\ Running /\ Top.pc = "parent_wait"
  /\ ret.valid /\ ret.rc = 0
  /\ GetFileName(Top.path) = Dot
  /\ Return(0, ret.out)
  /\ ev' = Ev("dot", ret.out, NoPath, 0, ret.out, Top.depth)
  /\ UNCHANGED <<fs, ctxmp, mountpoint, errno, op, last, prev, ncalls, nchanges, libVars,
                 attrSeq, hist>>

\* lines 280-283: the candidate is the expanded parent and fname
ParentReturn ==
  /\ Running /\ Top.pc = "parent_wait"
  /\ ret.valid /\ ret.rc = 0
  /\ GetFileName(Top.path) # Dot
  /\ stack' = SetTop([Top EXCEPT !.pc = "getattr",
                                 !.buf = AppendName(ret.out, GetFileName(Top.path))])
  /\ ret' = NoRet
  /\ ev' = Ev("append", ret.out, NoPath, 0,
              AppendName(ret.out, GetFileName(Top.path)), Top.depth)
  /\ UNCHANGED <<fs, ctxmp, mountpoint, errno, op, last, prev, ncalls, nchanges, libVars,
                 attrSeq, hist>>

NoteGetAttr(path) ==
  /\ attrSeq' = IF InSeq(path, attrSeq) THEN attrSeq ELSE Append(attrSeq, path)
  /\ hist' = NoteBackend(hist, CtxGetAttr(fs, path).rc)

\* lines 286-290: GetAttr on the candidate fails
GetAttrFails ==
  /\ Running /\ Top.pc = "getattr"
  /\ LET r == CtxGetAttr(fs, GetAttrPath(Top))
     IN /\ r.rc # 0
        /\ errno' = BackendErrno(r.rc)
        /\ Return(-1, NoPath)
        /\ ev' = Ev("getattr", GetAttrPath(Top), NoPath, r.rc, NoPath, Top.depth)
  /\ NoteGetAttr(GetAttrPath(Top))
  /\ UNCHANGED <<fs, ctxmp, mountpoint, op, last, prev, ncalls, nchanges, libVars>>

\* lines 286-295: the candidate is no symlink and is the result
GetAttrNoLink ==
  /\ Running /\ Top.pc = "getattr"
  /\ LET r == CtxGetAttr(fs, GetAttrPath(Top))
     IN r.rc = 0 /\ ~S_ISLNK(r)
  /\ Return(0, Top.buf)
  /\ ev' = Ev("getattr", GetAttrPath(Top), NoPath, 0, Top.buf, Top.depth)
  /\ NoteGetAttr(GetAttrPath(Top))
  /\ UNCHANGED <<fs, ctxmp, mountpoint, errno, op, last, prev, ncalls, nchanges, libVars>>

\* lines 297-302: a symlink beyond the recursion limit
GetAttrLinkLimit ==
  /\ Running /\ Top.pc = "getattr"
  /\ LET r == CtxGetAttr(fs, GetAttrPath(Top))
     IN r.rc = 0 /\ S_ISLNK(r)
  /\ OverLimit(Top.depth)
  /\ errno' = ELOOP
  /\ Return(-1, NoPath)
  /\ ev' = Ev("limit", GetAttrPath(Top), NoPath, -1, NoPath, Top.depth)
  /\ NoteGetAttr(GetAttrPath(Top))
  /\ UNCHANGED <<fs, ctxmp, mountpoint, op, last, prev, ncalls, nchanges, libVars>>

\* lines 292-306: a symlink to be expanded
GetAttrLink ==
  /\ Running /\ Top.pc = "getattr"
  /\ LET r == CtxGetAttr(fs, GetAttrPath(Top))
     IN r.rc = 0 /\ S_ISLNK(r)
  /\ ~OverLimit(Top.depth)
  /\ stack' = SetTop([Top EXCEPT !.pc = "readlink"])
  /\ ev' = Ev("islink", GetAttrPath(Top), NoPath, 0, NoPath, Top.depth)
  /\ NoteGetAttr(GetAttrPath(Top))
  /\ UNCHANGED <<fs, ctxmp, mountpoint, errno, op, ret, last, prev, ncalls, nchanges, libVars>>

\* lines 311-316: Readlink fails
ReadlinkFails ==
  /\ Running /\ Top.pc = "readlink"
  /\ LET r == CtxReadlink(fs, Top.buf)
     IN /\ r.rc # 0
        /\ errno' = BackendErrno(r.rc)
        /\ Return(-1, NoPath)
        /\ ev' = Ev("readlink", Top.buf, NoPath, r.rc, NoPath, Top.depth)
        /\ hist' = NoteReadlink(hist, r.rc)
  /\ UNCHANGED <<fs, ctxmp, mountpoint, op, last, prev, ncalls, nchanges, libVars, attrSeq>>

NoteTarget(h, ln, c) ==
  IF IsAbsolute(ln)
    THEN [h EXCEPT !.absTarget = ln, !.absCont = c.path, !.afterAbs = 0]
    ELSE h

\* lines 311-348: the target is read; an absolute target outside the
\* mountpoint is refused (329-335), otherwise expand_path goes on with the
\* target one level deeper and returns what that activation returns
ReadlinkTarget ==
  /\ Running /\ Top.pc = "readlink"
  /\ LET r == CtxReadlink(fs, Top.buf)
         c == LinkContinuation(Top.buf, r.target, mountpoint)
     IN /\ r.rc = 0
        /\ hist' = NoteTarget(NoteReadlink(hist, 0), r.target, c)
        /\ IF c.ok
             THEN /\ stack' = SetTop(Frame(c.path, NextDepth(Top.depth)))
                  /\ ev' = Ev("readlink", Top.buf, r.target, 0, c.path, Top.depth)
                  /\ UNCHANGED <<errno, ret>>
             ELSE /\ errno' = ENOENT
                  /\ Return(-1, NoPath)
                  /\ ev' = Ev("readlink", Top.buf, r.target, -1, NoPath, Top.depth)
  /\ UNCHANGED <<fs, ctxmp, mountpoint, op, last, prev, ncalls, nchanges, libVars, attrSeq>>

----------------------------------------------------------------------------
(* The cvmfs_* calls: after the resolution *)

Returned == op.pc \in {"path_wait", "ppath_wait"} /\ ~Running /\ ret.valid

\* lines 380-382, 407-409, 425-427, 443-445: the resolution failed
ResolveFailed ==
  /\ Returned
  /\ ret.rc # 0
  /\ Finish(-1, FALSE, NoPath, errno)
  /\ ev' = Ev("unresolved", op.path, NoPath, -1, NoPath, 0)
  /\ ret' = NoRet
  /\ UNCHANGED <<fs, ctxmp, mountpoint, stack, ncalls, nchanges, libVars, attrSeq, hist>>

\* lines 383, 428: lpath is the expanded path
PathResolved ==
  /\ Returned /\ op.pc = "path_wait"
  /\ ret.rc = 0
  /\ op' = [op EXCEPT !.pc = "delegate", !.lpath = ret.out]
  /\ ev' = Ev("resolved", op.path, NoPath, 0, ret.out, 0)
  /\ ret' = NoRet
  /\ hist' = [hist EXCEPT !.resolvedTo = ret.out]
  /\ UNCHANGED <<fs, ctxmp, mountpoint, errno, stack, last, prev, ncalls, nchanges, libVars,
                 attrSeq>>

\* lines 369-372: the expanded parent, "/" and the final component as given
PPathAppend(expanded, path) == expanded \o <<Slash>> \o GetFileName(path)

PPathResolved ==
  /\ Returned /\ op.pc = "ppath_wait"
  /\ ret.rc = 0
  /\ op' = [op EXCEPT !.pc = "delegate", !.lpath = PPathAppend(ret.out, op.path)]
  /\ ev' = Ev("ppath", op.path, NoPath, 0, PPathAppend(ret.out, op.path), 0)
  /\ ret' = NoRet
  /\ hist' = [hist EXCEPT !.resolvedTo = PPathAppend(ret.out, op.path)]
  /\ UNCHANGED <<fs, ctxmp, mountpoint, errno, stack, last, prev, ncalls, nchanges, libVars,
                 attrSeq>>

\* the backend operation of the call on the resolved path: GetAttr for
\* cvmfs_stat (430) and cvmfs_lstat (448), Readlink for cvmfs_readlink (412),
\* Open for cvmfs_open (385), ListDirectory for cvmfs_listdir (466)
CtxOperation(name, f, path) ==
  CASE name = "readlink" -> CtxReadlink(f, path).rc
    [] name = "open" -> CtxOpen(f, path)
    [] name = "listdir" -> CtxListDirectory(f, path)
    [] OTHER -> CtxGetAttr(f, path).rc

\* the backend operation given the path of the caller
DelegatePath_Caller(o) == o.path

\* lines 383, 410, 428, 446, 464: path = lpath.c_str()
DelegatePath(o) == o.lpath

\* lines 385-390, 412-417, 430-435, 448-453, 466-471: a negative status goes
\* to errno, cvmfs_open returns the handle and the others 0
Delegate ==
  /\ op.pc = "delegate"
  /\ LET rc == CtxOperation(op.name, fs, DelegatePath(op))
     IN /\ IF rc < 0 THEN Finish(-1, TRUE, op.lpath, -rc)
                     ELSE Finish(IF op.name = "open" THEN rc ELSE 0,
                                 TRUE, op.lpath, errno)
        /\ ev' = Ev("delegate", DelegatePath(op), NoPath, rc, NoPath, 0)
  /\ hist' = [hist EXCEPT !.ops = @ + 1, !.opPath = DelegatePath(op)]
  /\ UNCHANGED <<fs, ctxmp, mountpoint, stack, ret, ncalls, nchanges, libVars, attrSeq>>

----------------------------------------------------------------------------

Next ==
  \/ CallFirst
  \/ CallAgain
  \/ OpExpandPath
  \/ PPathNoParent
  \/ PPathExpandParent
  \/ EnterDotDot
  \/ EnterParent
  \/ EnterTopLevel
  \/ ParentFailed
  \/ DotDotReturn
  \/ DotReturn
  \/ ParentReturn
  \/ GetAttrFails
  \/ GetAttrNoLink
  \/ GetAttrLinkLimit
  \/ GetAttrLink
  \/ ReadlinkFails
  \/ ReadlinkTarget
  \/ ResolveFailed
  \/ PathResolved
  \/ PPathResolved
  \/ Delegate

Spec == Init /\ [][Next]_vars

----------------------------------------------------------------------------
(* A resolution racing with remounts: between any two steps of a call the  *)
(* backend may come to hold another content; each single backend call     *)
(* answers from one content.                                               *)

\* number of content changes in one behaviour
MaxChanges == 1

\* /l a symlink to itself, /l and /k symlinks to each other, /l a symlink to
\* the file /t, and no /l
RaceContents ==
  { MkFS(BaseEntries \cup {Link(<<"/","l">>, <<"l">>)}, 0),
    MkFS(BaseEntries \cup {Link(<<"/","l">>, <<"k">>)}, 0),
    MkFS(BaseEntries \cup {Link(<<"/","l">>, <<"t">>)}, 0),
    MkFS(BaseEntries, 0) }

RaceCalls ==
  { <<"stat", <<"/","l","/",".">>>>, <<"stat", <<"/","a","/",".",".">>>>,
    <<"stat", <<"/","a","/","c">>>>, <<"lstat", <<"/","l">>>>,
    <<"lstat", <<"/","a","/","c">>>> }

InitRace == Init /\ fs \in RaceContents

\* one call of a client
CallRace ==
  /\ ncalls = 0
  /\ \E c \in RaceCalls : StartCall(c[1], c[2])

\* cvmfs_remount by another thread of the client loaded a new catalog
BackendChange ==
  /\ op # Idle
  /\ nchanges < MaxChanges
  /\ \E f \in RaceContents \ {fs} : fs' = f
  /\ nchanges' = nchanges + 1
  /\ UNCHANGED <<ctxmp, mountpoint, errno, op, stack, ret, last, prev, ncalls,
                 ev, attrSeq, hist, libVars>>

\* the steps of the call in progress
Resolve ==
  \/ OpExpandPath
  \/ PPathNoParent
  \/ PPathExpandParent
  \/ EnterDotDot
  \/ EnterParent
  \/ EnterTopLevel
  \/ ParentFailed
  \/ DotDotReturn
  \/ DotReturn
  \/ ParentReturn
  \/ GetAttrFails
  \/ GetAttrNoLink
  \/ GetAttrLinkLimit
  \/ GetAttrLink
  \/ ReadlinkFails
  \/ ReadlinkTarget
  \/ ResolveFailed
  \/ PathResolved
  \/ PPathResolved
  \/ Delegate

NextRace == CallRace \/ BackendChange \/ Resolve

\* the thread executing the call keeps running and every backend call returns
SpecRace == InitRace /\ [][NextRace]_vars /\ WF_vars(Resolve)

----------------------------------------------------------------------------
(* The file operations of the library, each called on a few paths, and     *)
(* cvmfs_close                                                             *)

\* /l a symlink to the file /t, to itself, one whose target cannot be read,
\* an entry that cannot be loaded
ApiContents ==
  { MkFS(BaseEntries \cup {Link(<<"/","l">>, <<"t">>)}, 0),
    MkFS(BaseEntries \cup {Link(<<"/","l">>, <<"l">>)}, 0),
    MkFS(BaseEntries \cup {BadLink(<<"/","l">>)}, 0),
    MkFS(BaseEntries \cup {Bad(<<"/","l">>)}, 0) }

ApiPaths ==
  { <<"/","l">>, <<"/","a","/","c">>, <<"/","a","/",".",".","/","a">>,
    <<"/","d","/",".">>, <<"/","n","/","a">>, <<"/",".",".">> }

InitApi == Init /\ fs \in ApiContents

\* one call of a client that resolves a path
CallApi ==
  /\ ncalls = 0
  /\ \E name \in PathOps \cup PPathOps, path \in ApiPaths : StartCall(name, path)

\* lines 393-401: cvmfs_close hands the handle to the backend
CloseCall ==
  /\ op = Idle
  /\ ncalls < MaxCalls
  /\ \E fd \in Handles :
       LET rc == CtxClose(fd)
       IN /\ last' = [valid |-> TRUE, name |-> "close", path |-> Empty,
                      resolved |-> FALSE, lpath |-> NoPath,
                      rc |-> IF rc < 0 THEN -1 ELSE 0,
                      errno |-> IF rc < 0 THEN -rc ELSE errno]
          /\ errno' = IF rc < 0 THEN -rc ELSE errno
          /\ ev' = Ev("delegate", NoPath, NoPath, rc, NoPath, 0)
  /\ prev' = last
  /\ ncalls' = ncalls + 1
  /\ ret' = NoRet
  /\ attrSeq' = << >>
  /\ hist' = [NoHist EXCEPT !.ops = 1]
  /\ UNCHANGED <<fs, ctxmp, mountpoint, op, stack, nchanges, libVars>>

NextApi == CallApi \/ CloseCall \/ Resolve

SpecApi == InitApi /\ [][NextApi]_vars

----------------------------------------------------------------------------
(* cvmfs_remount *)

\* number of cvmfs_remount calls in one behaviour
MaxRemounts == 3

\* catalog::LoadError, what RemountStart returns
LoadErrors == {"kLoadNew", "kLoadUp2Date", "kLoadNoSpace", "kLoadFail"}

\* success on a new catalog only
RemountResult_OnlyNew(retval) == IF retval = "kLoadNew" THEN 0 ELSE -1

\* lines 534-537: 0 for kLoadNew and kLoadUp2Date, -1 otherwise
RemountResult(retval) ==
  IF retval = "kLoadNew" \/ retval = "kLoadUp2Date" THEN 0 ELSE -1

InitRemount == Init /\ fs \in RaceContents

\* a client calls cvmfs_remount
RemountCall ==
  /\ remount.pc = "idle"
  /\ Len(remount.log) < MaxRemounts
  /\ remount' = [remount EXCEPT !.pc = "start", !.calls = 0,
                                !.retval = "none", !.rc = 0]
  /\ UNCHANGED <<pathVars, ctxs, opt, letter>>

\* line 533: ctx->RemountStart(); with kLoadNew the backend holds a new
\* catalog
RemountStart ==
  /\ remount.pc = "start"
  /\ \E retval \in LoadErrors :
       /\ remount' = [remount EXCEPT !.pc = "test", !.calls = @ + 1,
                                     !.retval = retval]
       /\ IF retval = "kLoadNew"
            THEN \E f \in RaceContents \ {fs} : fs' = f
            ELSE fs' = fs
  /\ UNCHANGED <<ctxmp, mountpoint, errno, op, stack, ret, last, prev, ncalls,
                 nchanges, ev, attrSeq, hist, ctxs, opt, letter>>

\* lines 534-537: the result of cvmfs_remount
RemountReturn ==
  /\ remount.pc = "test"
  /\ remount' = [remount EXCEPT
                   !.pc = "idle",
                   !.rc = RemountResult(remount.retval),
                   !.log = Append(@, <<remount.retval,
                                       RemountResult(remount.retval)>>)]
  /\ UNCHANGED <<pathVars, ctxs, opt, letter>>

NextRemount == RemountCall \/ RemountStart \/ RemountReturn

SpecRemount == InitRemount /\ [][NextRemount]_vars

----------------------------------------------------------------------------
(* Several repositories attached and detached while paths are resolved *)

\* opts.mountpoint of the repositories a client attaches
AttachMountpoints == { <<"/","m","/","r">>, <<"/","e">> }

InitAttach == Init /\ fs = MkFS(BaseEntries, 0)

\* lines 474-493: cvmfs_attach_repo creates the context from the options;
\* the context keeps opts.mountpoint, ::mountpoint is not assigned
AttachRepo ==
  \E c \in CtxIds, mp \in AttachMountpoints :
    /\ ~ctxs[c].attached
    /\ ctxs' = [ctxs EXCEPT ![c] = [attached |-> TRUE, mp |-> mp,
                                    read |-> NoPath]]
    /\ UNCHANGED <<pathVars, remount, opt, letter>>

\* lines 507-510: cvmfs_fini deletes the context and clears ::mountpoint
Fini ==
  \E c \in CtxIds :
    /\ ctxs[c].attached
    /\ ctxs' = [ctxs EXCEPT ![c] = Detached]
    /\ mountpoint' = Empty
    /\ UNCHANGED <<fs, ctxmp, errno, op, stack, ret, last, prev, ncalls,
                   nchanges, ev, attrSeq, hist, remount, opt, letter>>

\* line 320: a resolution running on context c reads ::mountpoint for the
\* test of an absolute link target
ReadMountpoint ==
  \E c \in CtxIds :
    /\ ctxs[c].attached
    /\ ctxs' = [ctxs EXCEPT ![c].read = mountpoint]
    /\ UNCHANGED <<pathVars, remount, opt, letter>>

NextAttach == AttachRepo \/ Fini \/ ReadMountpoint

SpecAttach == InitAttach /\ [][NextAttach]_vars

----------------------------------------------------------------------------
(* parse_options of the repository options and cvmfs_attach_repo *)

\* number of tokens of an option string
MaxTokens == 3

\* the terminating '\0' of a C string
NUL == "NUL"
CharAt(s, i) == IF i <= Len(s) THEN s[i] ELSE NUL
Backslash == "\\"
Comma == ","
Equals == "="

\* line 150: the characters that end the option name
NameStops(c) == c \in {NUL, Comma, Equals}

\* line 163: the characters that end the option value
ValueStops(c) == c \in {NUL, Comma}

\* line 178: a comma after the token is stepped over
AfterToken(s, next) == IF CharAt(s, next) = Comma THEN next + 1 ELSE next

\* the option names of cvmfs_repo_options, lines 83-93
k_url == <<"u", "r", "l">>
k_timeout == <<"t", "i", "m", "e", "o", "u", "t">>
k_timeout_direct == k_timeout \o <<"_", "d", "i", "r", "e", "c", "t">>
k_proxies == <<"p", "r", "o", "x", "i", "e", "s">>
k_tracefile == <<"t", "r", "a", "c", "e", "f", "i", "l", "e">>
k_allow_unsigned == <<"a", "l", "l", "o", "w", "_", "u", "n", "s", "i", "g", "n", "e", "d">>
k_pubkey == <<"p", "u", "b", "k", "e", "y">>
k_deep_mount == <<"d", "e", "e", "p", "_", "m", "o", "u", "n", "t">>
k_repo_name == <<"r", "e", "p", "o", "_", "n", "a", "m", "e">>
k_mountpoint == <<"m", "o", "u", "n", "t", "p", "o", "i", "n", "t">>
k_blacklist == <<"b", "l", "a", "c", "k", "l", "i", "s", "t">>

\* cvmfs_context::options as its constructor leaves it
kDefaultTimeout == 2
DefaultOptions ==
  [url |-> Empty, timeout |-> kDefaultTimeout,
   timeout_direct |-> kDefaultTimeout, proxies |-> Empty, tracefile |-> Empty,
   allow_unsigned |-> FALSE, pubkey |-> Empty, deep_mount |-> Empty,
   repo_name |-> Empty, mountpoint |-> Empty, blacklist |-> Empty]

\* lines 28-35: a flag takes no value
SetBool(value) == IF value # Empty THEN -1 ELSE 0

\* lines 37-47: sscanf "%u%n" has to take the whole value (values here hold
\* neither sign nor white space)
SetUnsigned(value) ==
  IF value # Empty /\ \A i \in 1..Len(value) : IsDigit(value[i]) THEN 0 ELSE -1

\* an unknown name taken without complaint
SetOption_IgnoreUnknown(o, name, value) == [rc |-> 0, o |-> o]

\* lines 82-97 with lines 28-76: set_option of the repository options
SetOption(o, name, value) ==
  CASE name = k_url -> [rc |-> 0, o |-> [o EXCEPT !.url = value]]
    [] name = k_timeout ->
         IF SetUnsigned(value) = 0
           THEN [rc |-> 0, o |-> [o EXCEPT !.timeout = DecVal(value)]]
           ELSE [rc |-> -1, o |-> o]
    [] name = k_timeout_direct ->
         IF SetUnsigned(value) = 0
           THEN [rc |-> 0, o |-> [o EXCEPT !.timeout_direct = DecVal(value)]]
           ELSE [rc |-> -1, o |-> o]
    [] name = k_proxies -> [rc |-> 0, o |-> [o EXCEPT !.proxies = value]]
    [] name = k_tracefile -> [rc |-> 0, o |-> [o EXCEPT !.tracefile = value]]
    [] name = k_allow_unsigned ->
         IF SetBool(value) = 0
           THEN [rc |-> 0, o |-> [o EXCEPT !.allow_unsigned = TRUE]]
           ELSE [rc |-> -1, o |-> o]
    [] name = k_pubkey -> [rc |-> 0, o |-> [o EXCEPT !.pubkey = value]]
    [] name = k_deep_mount -> [rc |-> 0, o |-> [o EXCEPT !.deep_mount = value]]
    [] name = k_repo_name -> [rc |-> 0, o |-> [o EXCEPT !.repo_name = value]]
    [] name = k_mountpoint -> [rc |-> 0, o |-> [o EXCEPT !.mountpoint = value]]
    [] name = k_blacklist -> [rc |-> 0, o |-> [o EXCEPT !.blacklist = value]]
    [] OTHER -> [rc |-> -1, o |-> o]

\* lines 104-106: trailing slashes taken off
RECURSIVE StripTrailingSlashes(_)
StripTrailingSlashes(m) ==
  IF Len(m) > 0 /\ m[Len(m)] = Slash
    THEN StripTrailingSlashes(SubSeq(m, 1, Len(m) - 1))
    ELSE m

\* line 101: "/cvmfs/"
CvmfsPrefix == <<"/", "c", "v", "m", "f", "s", "/">>

\* lines 99-109: verify_sanity of the repository options
VerifySanity(o) ==
  LET m == IF o.mountpoint = Empty /\ o.repo_name # Empty
             THEN CvmfsPrefix \o o.repo_name
             ELSE o.mountpoint
  IN [o EXCEPT !.mountpoint = StripTrailingSlashes(m)]

\* the tokens option strings are put together from, with the name and the
\* value each one stands for; kind: taken (ok), neither name nor value
\* (skip), refused (bad)
TokenTable ==
  << [text |-> k_url \o <<"=", "u">>, kind |-> "ok",
      name |-> k_url, value |-> <<"u">>],
     [text |-> k_mountpoint \o <<"=", "/", "m", "/", "/">>, kind |-> "ok",
      name |-> k_mountpoint, value |-> <<"/", "m", "/", "/">>],
     [text |-> k_mountpoint \o <<"=", "/">>, kind |-> "ok",
      name |-> k_mountpoint, value |-> <<"/">>],
     [text |-> k_repo_name \o <<"=", "r", "/">>, kind |-> "ok",
      name |-> k_repo_name, value |-> <<"r", "/">>],
     [text |-> Empty, kind |-> "skip", name |-> Empty, value |-> Empty],
     [text |-> <<"=">>, kind |-> "skip", name |-> Empty, value |-> Empty],
     [text |-> <<"\\", "x", "=", "1">>, kind |-> "bad",
      name |-> <<"x">>, value |-> <<"1">>],
     [text |-> k_allow_unsigned \o <<"=", "1">>, kind |-> "bad",
      name |-> k_allow_unsigned, value |-> <<"1">>],
     [text |-> k_timeout \o <<"=", "5">>, kind |-> "ok",
      name |-> k_timeout, value |-> <<"5">>],
     [text |-> k_url \o <<"=", "a", "\\", ",", "b">>, kind |-> "ok",
      name |-> k_url, value |-> <<"a", ",", "b">>],
     [text |-> k_url \o <<"=", "u", "\\">>, kind |-> "ok",
      name |-> k_url, value |-> <<"u">>],
     [text |-> <<"x", "\\">>, kind |-> "bad",
      name |-> <<"x">>, value |-> Empty] >>

\* the last two tokens end in a lone backslash, which would swallow a
\* following comma: they only close an option string
NumPlain == Len(TokenTable) - 2

\* the tokens joined with commas
RECURSIVE Join(_)
Join(toks) ==
  IF toks = << >> THEN Empty
  ELSE IF Len(toks) = 1 THEN TokenTable[toks[1]].text
  ELSE TokenTable[toks[1]].text \o <<Comma>> \o Join(Tail(toks))

TokenSeqs ==
  UNION {[1..n -> 1..NumPlain] : n \in 1..MaxTokens}
    \cup {<<NumPlain + 1>>, <<1, NumPlain + 1>>,
          <<NumPlain + 2>>, <<5, NumPlain + 2>>}

InitOptions == Init /\ fs = MkFS(BaseEntries, 0)

\* lines 477-478: cvmfs_attach_repo hands the option string to parse_options
ParseStart ==
  /\ opt.pc = "idle"
  /\ \E toks \in TokenSeqs :
       opt' = [NoOpt EXCEPT !.pc = "top", !.tokens = toks,
                            !.input = Join(toks), !.o = DefaultOptions]
  /\ UNCHANGED <<pathVars, remount, ctxs, letter>>

\* lines 144-150: a pass of the loop begins at "options"
LoopEnter ==
  /\ opt.pc = "top" /\ CharAt(opt.input, opt.pos) # NUL
  /\ opt' = [opt EXCEPT !.pc = "name", !.next = opt.pos,
                        !.name = Empty, !.value = Empty]
  /\ UNCHANGED <<pathVars, remount, ctxs, letter>>

\* lines 150-156: a character of the name
NameChar ==
  /\ opt.pc = "name"
  /\ ~NameStops(CharAt(opt.input, opt.next))
  /\ CharAt(opt.input, opt.next) # Backslash
  /\ opt' = [opt EXCEPT !.name = Append(@, CharAt(opt.input, opt.next)),
                        !.next = @ + 1]
  /\ UNCHANGED <<pathVars, remount, ctxs, letter>>

\* lines 151-155: a backslash, the character after it goes into the name
NameEscaped ==
  /\ opt.pc = "name"
  /\ CharAt(opt.input, opt.next) = Backslash
  /\ CharAt(opt.input, opt.next + 1) # NUL
  /\ opt' = [opt EXCEPT !.name = Append(@, CharAt(opt.input, opt.next + 1)),
                        !.next = @ + 2]
  /\ UNCHANGED <<pathVars, remount, ctxs, letter>>

\* lines 151-153: a backslash that ends the string
NameBreak ==
  /\ opt.pc = "name"
  /\ CharAt(opt.input, opt.next) = Backslash
  /\ CharAt(opt.input, opt.next + 1) = NUL
  /\ opt' = [opt EXCEPT !.pc = "value", !.next = @ + 1]
  /\ UNCHANGED <<pathVars, remount, ctxs, letter>>

\* lines 150 and 158-160: the name ends, '=' is stepped over
NameEnd ==
  /\ opt.pc = "name"
  /\ NameStops(CharAt(opt.input, opt.next))
  /\ opt' = [opt EXCEPT !.pc = "value",
                        !.next = IF CharAt(opt.input, opt.next) = Equals
                                   THEN @ + 1 ELSE @]
  /\ UNCHANGED <<pathVars, remount, ctxs, letter>>

\* lines 163-169: a character of the value
ValueChar ==
  /\ opt.pc = "value"
  /\ ~ValueStops(CharAt(opt.input, opt.next))
  /\ CharAt(opt.input, opt.next) # Backslash
  /\ opt' = [opt EXCEPT !.value = Append(@, CharAt(opt.input, opt.next)),
                        !.next = @ + 1]
  /\ UNCHANGED <<pathVars, remount, ctxs, letter>>

\* lines 164-168: a backslash, the character after it goes into the value
ValueEscaped ==
  /\ opt.pc = "value"
  /\ CharAt(opt.input, opt.next) = Backslash
  /\ CharAt(opt.input, opt.next + 1) # NUL
  /\ opt' = [opt EXCEPT !.value = Append(@, CharAt(opt.input, opt.next + 1)),
                        !.next = @ + 2]
  /\ UNCHANGED <<pathVars, remount, ctxs, letter>>

\* lines 164-166: a backslash that ends the string
ValueBreak ==
  /\ opt.pc = "value"
  /\ CharAt(opt.input, opt.next) = Backslash
  /\ CharAt(opt.input, opt.next + 1) = NUL
  /\ opt' = [opt EXCEPT !.pc = "dispatch", !.next = @ + 1]
  /\ UNCHANGED <<pathVars, remount, ctxs, letter>>

\* line 163: the value ends
ValueEnd ==
  /\ opt.pc = "value"
  /\ ValueStops(CharAt(opt.input, opt.next))
  /\ opt' = [opt EXCEPT !.pc = "dispatch"]
  /\ UNCHANGED <<pathVars, remount, ctxs, letter>>

\* line 171 false, lines 178-179: neither name nor value
ParseSkip ==
  /\ opt.pc = "dispatch"
  /\ opt.name = Empty /\ opt.value = Empty
  /\ opt' = [opt EXCEPT !.pc = "top", !.pos = AfterToken(opt.input, opt.next)]
  /\ UNCHANGED <<pathVars, remount, ctxs, letter>>

\* lines 171-179: set_option takes the token
ParseSet ==
  /\ opt.pc = "dispatch"
  /\ opt.name # Empty \/ opt.value # Empty
  /\ SetOption(opt.o, opt.name, opt.value).rc = 0
  /\ opt' = [opt EXCEPT !.pc = "top", !.pos = AfterToken(opt.input, opt.next),
                        !.o = SetOption(opt.o, opt.name, opt.value).o,
                        !.applied = Append(@, <<opt.name, opt.value>>)]
  /\ UNCHANGED <<pathVars, remount, ctxs, letter>>

\* lines 172-175: set_option refuses the token and parse_options returns
ParseFail ==
  /\ opt.pc = "dispatch"
  /\ opt.name # Empty \/ opt.value # Empty
  /\ SetOption(opt.o, opt.name, opt.value).rc # 0
  /\ opt' = [opt EXCEPT !.pc = "failed",
                        !.result = SetOption(opt.o, opt.name, opt.value).rc,
                        !.applied = Append(@, <<opt.name, opt.value>>)]
  /\ UNCHANGED <<pathVars, remount, ctxs, letter>>

\* lines 144 and 182: the string is used up, verify_sanity
ParseVerify ==
  /\ opt.pc = "top" /\ CharAt(opt.input, opt.pos) = NUL
  /\ opt' = [opt EXCEPT !.pc = "parsed", !.o = VerifySanity(opt.o),
                        !.result = 0]
  /\ UNCHANGED <<pathVars, remount, ctxs, letter>>

\* lines 479-490: no context when parsing failed or no url is given
AttachRefused(parse_result, o) == parse_result # 0 \/ o.url = Empty

AttachNull ==
  /\ opt.pc \in {"failed", "parsed"}
  /\ AttachRefused(opt.result, opt.o)
  /\ opt' = [opt EXCEPT !.pc = "returned", !.ctx = "NULL"]
  /\ UNCHANGED <<pathVars, remount, ctxs, letter>>

\* line 492: cvmfs_context::Create, which may fail
AttachCreate ==
  /\ opt.pc \in {"failed", "parsed"}
  /\ ~AttachRefused(opt.result, opt.o)
  /\ \E c \in {"context", "NULL"} :
       opt' = [opt EXCEPT !.pc = "returned", !.ctx = c]
  /\ UNCHANGED <<pathVars, remount, ctxs, letter>>

\* the steps of cvmfs_attach_repo once called
ParseStep ==
  \/ LoopEnter
  \/ NameChar
  \/ NameEscaped
  \/ NameBreak
  \/ NameEnd
  \/ ValueChar
  \/ ValueEscaped
  \/ ValueBreak
  \/ ValueEnd
  \/ ParseSkip
  \/ ParseSet
  \/ ParseFail
  \/ ParseVerify
  \/ AttachNull
  \/ AttachCreate

NextOptions == ParseStart \/ ParseStep

\* the thread that called cvmfs_attach_repo keeps running
SpecOptions == InitOptions /\ [][NextOptions]_vars /\ WF_vars(ParseStep)

----------------------------------------------------------------------------
(* cvmfs_swissknife letter (swissknife_letter.cc), verify mode *)

\* length of the standard input
MaxInput == 3

Newline == "\n"

RECURSIVE StringsUpTo(_)
StringsUpTo(n) ==
  IF n = 0 THEN {Empty}
  ELSE StringsUpTo(n - 1)
         \cup {Append(t, c) : t \in {t \in StringsUpTo(n - 1) : Len(t) = n - 1},
                              c \in {"a", Newline}}

StdInputs == StringsUpTo(MaxInput)

\* the text of option -t: none, or a letter
TextArgs == {Empty, <<"t">>}

InitLetter == Init /\ fs = MkFS(BaseEntries, 0)

\* lines 22-24, 37-40, 53-64: Main is called with -v
LetterStart ==
  /\ letter.pc = "idle"
  /\ \E sflag \in BOOLEAN, loop \in BOOLEAN, cacrl \in BOOLEAN,
        text \in TextArgs, input \in StdInputs :
       letter' = [NoLetter EXCEPT !.pc = "args", !.sflag = sflag,
                                  !.loop = loop, !.cacrl = cacrl,
                                  !.text = text, !.stdin = input]
  /\ UNCHANGED <<pathVars, remount, ctxs, opt>>

\* lines 25-29: sign and verify together
InvalidCombination ==
  /\ letter.pc = "args" /\ letter.sflag
  /\ letter' = [letter EXCEPT !.pc = "returned", !.ret = 1]
  /\ UNCHANGED <<pathVars, remount, ctxs, opt>>

\* lines 67-88: the CA/CRLs, the public keys and the whitelist are loaded
SetupFails(cacrl, caOk, keysOk, wlOk) ==
  \/ cacrl /\ ~caOk
  \/ ~keysOk /\ ~cacrl
  \/ ~wlOk

\* lines 66-88: return 2 when the setup fails
VerifySetupFails ==
  /\ letter.pc = "args" /\ ~letter.sflag
  /\ \E caOk \in BOOLEAN, keysOk \in BOOLEAN, wlOk \in BOOLEAN :
       SetupFails(letter.cacrl, caOk, keysOk, wlOk)
  /\ letter' = [letter EXCEPT !.pc = "returned", !.ret = 2]
  /\ UNCHANGED <<pathVars, remount, ctxs, opt>>

\* lines 66-90: the setup succeeds, exit_code = 0
VerifySetup ==
  /\ letter.pc = "args" /\ ~letter.sflag
  /\ \E caOk \in BOOLEAN, keysOk \in BOOLEAN, wlOk \in BOOLEAN :
       ~SetupFails(letter.cacrl, caOk, keysOk, wlOk)
  /\ letter' = [letter EXCEPT !.pc = "top", !.exit_code = 0]
  /\ UNCHANGED <<pathVars, remount, ctxs, opt>>

\* lines 91-92: the text is there, nothing is read
HaveText ==
  /\ letter.pc = "top" /\ letter.text # Empty
  /\ letter' = [letter EXCEPT !.pc = "verify"]
  /\ UNCHANGED <<pathVars, remount, ctxs, opt>>

\* lines 92-94: no text, it is read from the standard input
NeedText ==
  /\ letter.pc = "top" /\ letter.text = Empty
  /\ letter' = [letter EXCEPT !.pc = "read"]
  /\ UNCHANGED <<pathVars, remount, ctxs, opt>>

\* lines 94-97: a character other than the newline
ReadChar ==
  /\ letter.pc = "read"
  /\ letter.stdin # Empty /\ Head(letter.stdin) # Newline
  /\ letter' = [letter EXCEPT !.text = Append(@, Head(letter.stdin)),
                              !.stdin = Tail(@)]
  /\ UNCHANGED <<pathVars, remount, ctxs, opt>>

\* lines 94-96 and 99: the newline ends the line
ReadNewline ==
  /\ letter.pc = "read"
  /\ letter.stdin # Empty /\ Head(letter.stdin) = Newline
  /\ letter' = [letter EXCEPT !.pc = "verify", !.stdin = Tail(@)]
  /\ UNCHANGED <<pathVars, remount, ctxs, opt>>

\* lines 94 and 99: read returns 0 at the end of the input: return exit_code
ReadEnd ==
  /\ letter.pc = "read"
  /\ letter.stdin = Empty
  /\ letter' = [letter EXCEPT !.pc = "returned", !.ret = letter.exit_code]
  /\ UNCHANGED <<pathVars, remount, ctxs, opt>>

\* lines 94 and 99: read fails: return exit_code
ReadError ==
  /\ letter.pc = "read"
  /\ letter' = [letter EXCEPT !.pc = "returned", !.ret = letter.exit_code]
  /\ UNCHANGED <<pathVars, remount, ctxs, opt>>

\* lines 113-125: the exit code of a verification
VerifyExitCode(v) ==
  IF ~v.ok THEN 3
  ELSE IF v.expired THEN 4
  ELSE IF ~v.cert THEN 5
  ELSE 0

\* lines 102-135: the letter is verified, text = ""
VerifyLetter ==
  /\ letter.pc = "verify"
  /\ \E ok \in BOOLEAN, expired \in BOOLEAN, cert \in BOOLEAN :
       LET v == [ok |-> ok, expired |-> expired, cert |-> cert]
       IN letter' = [letter EXCEPT
                       !.pc = IF letter.loop THEN "top" ELSE "fini",
                       !.exit_code = VerifyExitCode(v),
                       !.text = Empty,
                       !.verified = TRUE,
                       !.lastv = v]
  /\ UNCHANGED <<pathVars, remount, ctxs, opt>>

\* lines 136-138: return exit_code
VerifyReturn ==
  /\ letter.pc = "fini"
  /\ letter' = [letter EXCEPT !.pc = "returned", !.ret = letter.exit_code]
  /\ UNCHANGED <<pathVars, remount, ctxs, opt>>

NextLetter ==
  \/ LetterStart
  \/ InvalidCombination
  \/ VerifySetupFails
  \/ VerifySetup
  \/ HaveText
  \/ NeedText
  \/ ReadChar
  \/ ReadNewline
  \/ ReadEnd
  \/ ReadError
  \/ VerifyLetter
  \/ VerifyReturn

SpecLetter == InitLetter /\ [][NextLetter]_vars

----------------------------------------------------------------------------
(* cvmfs_swissknife letter (swissknife_letter.cc), sign mode *)

\* line 177: the tries of the password loop
MaxPasswordRetries == 3

\* the hash algorithms ParseHashAlgorithm knows
Algorithms == {"sha1", "rmd160"}

\* option -a: absent, a known name, a name ParseHashAlgorithm answers with kAny
AlgoArgs == {"none", "sha1", "bad"}

\* what a read up to the newline takes from the input, and what it leaves
RECURSIVE FirstLine(_)
FirstLine(in) ==
  IF in = Empty \/ Head(in) = Newline THEN Empty
  ELSE <<Head(in)>> \o FirstLine(Tail(in))

RECURSIVE AfterLine(_)
AfterLine(in) ==
  IF in = Empty THEN Empty
  ELSE IF Head(in) = Newline THEN Tail(in)
  ELSE AfterLine(Tail(in))

\* line 177, with retry already incremented: one more
\* pass through the password loop
RetryAgain_OneMore(success, retry) == ~success /\ retry <= MaxPasswordRetries

RetryAgain(success, retry) == ~success /\ retry < MaxPasswordRetries

\* lines 22-24, 41-45, 53-64: Main is called without -v
SignStart ==
  /\ letter.pc = "idle"
  /\ \E algo \in AlgoArgs, text \in TextArgs, input \in StdInputs :
       letter' = [NoLetter EXCEPT !.pc = "sargs", !.algo = algo,
                                  !.text = text, !.stdin = input]
  /\ UNCHANGED <<pathVars, remount, ctxs, opt>>

\* lines 45-51: the name of -a is not known, return 1
UnknownAlgorithm ==
  /\ letter.pc = "sargs" /\ letter.algo = "bad"
  /\ letter' = [letter EXCEPT !.pc = "returned", !.ret = 1]
  /\ UNCHANGED <<pathVars, remount, ctxs, opt>>

\* lines 141-145: the certificate does not load, return 2
LoadCertificateFails ==
  /\ letter.pc = "sargs" /\ letter.algo # "bad"
  /\ letter' = [letter EXCEPT !.pc = "returned", !.ret = 2]
  /\ UNCHANGED <<pathVars, remount, ctxs, opt>>

\* lines 141-145: the certificate loads
LoadCertificate ==
  /\ letter.pc = "sargs" /\ letter.algo # "bad"
  /\ letter' = [letter EXCEPT !.pc = "key"]
  /\ UNCHANGED <<pathVars, remount, ctxs, opt>>

\* line 148: the private key loads with the password of -p
LoadPrivateKey ==
  /\ letter.pc = "key"
  /\ letter' = [letter EXCEPT !.pc = "match", !.loaded = TRUE]
  /\ UNCHANGED <<pathVars, remount, ctxs, opt>>

\* lines 148-150: it does not, retry = 0
LoadPrivateKeyFails ==
  /\ letter.pc = "key"
  /\ letter' = [letter EXCEPT !.pc = "prompt", !.retry = 0]
  /\ UNCHANGED <<pathVars, remount, ctxs, opt>>

\* lines 151-159: tcsetattr fails, return 2
TerminalFailure ==
  /\ letter.pc = "prompt"
  /\ letter' = [letter EXCEPT !.pc = "returned", !.ret = 2]
  /\ UNCHANGED <<pathVars, remount, ctxs, opt>>

\* lines 151-178: one pass through the password loop: the password is read
\* from the standard input, the load is tried, retry++
PromptPassword ==
  /\ letter.pc = "prompt"
  /\ \E success \in BOOLEAN :
       LET retry == letter.retry + 1
       IN letter' = [letter EXCEPT
                       !.stdin = AfterLine(@),
                       !.prompts = @ + 1,
                       !.failed = IF success THEN @ ELSE @ + 1,
                       !.loaded = success,
                       !.retry = retry,
                       !.pc = IF RetryAgain(success, retry) THEN "prompt"
                              ELSE IF ~success THEN "returned"
                              ELSE "match",
                       !.ret = IF ~RetryAgain(success, retry) /\ ~success
                               THEN 2 ELSE @]
  /\ UNCHANGED <<pathVars, remount, ctxs, opt>>

\* lines 179-184: the key does not match the certificate, return 2
KeysMatchFails ==
  /\ letter.pc = "match"
  /\ letter' = [letter EXCEPT !.pc = "returned", !.ret = 2]
  /\ UNCHANGED <<pathVars, remount, ctxs, opt>>

\* line 179: it matches
KeysMatch ==
  /\ letter.pc = "match"
  /\ letter' = [letter EXCEPT !.pc = "stext", !.keysMatch = TRUE]
  /\ UNCHANGED <<pathVars, remount, ctxs, opt>>

\* lines 185-192: without a text, a line of the standard input is the text
SignReadText ==
  /\ letter.pc = "stext"
  /\ letter' = [letter EXCEPT
                  !.pc = "sign",
                  !.text = IF @ = Empty THEN FirstLine(letter.stdin) ELSE @,
                  !.stdin = IF letter.text = Empty THEN AfterLine(@) ELSE @]
  /\ UNCHANGED <<pathVars, remount, ctxs, opt>>

\* lines 194-199: the letter is signed, return 0; without -a hash_algorithm
\* was never assigned (line 35) and holds any value
SignLetter ==
  /\ letter.pc = "sign"
  /\ \E a \in (IF letter.algo = "none" THEN Algorithms \cup {"any"}
               ELSE {letter.algo}) :
       letter' = [letter EXCEPT !.pc = "returned", !.ret = 0,
                                !.signed = TRUE, !.signedWith = a]
  /\ UNCHANGED <<pathVars, remount, ctxs, opt>>

NextSign ==
  \/ SignStart
  \/ UnknownAlgorithm
  \/ LoadCertificateFails
  \/ LoadCertificate
  \/ LoadPrivateKey
  \/ LoadPrivateKeyFails
  \/ TerminalFailure
  \/ PromptPassword
  \/ KeysMatchFails
  \/ KeysMatch
  \/ SignReadText
  \/ SignLetter

SpecSign == InitLetter /\ [][NextSign]_vars

----------------------------------------------------------------------------
(* Notions the properties are stated with *)

Done == op = Idle /\ last.valid

\* t is mp, or mp followed by "/" and more
WithinMount(t, mp) ==
  \/ t = mp
  \/ Len(t) > Len(mp) /\ SubSeq(t, 1, Len(mp) + 1) = mp \o <<Slash>>

\* t with the leading mp taken off, "/" when t is mp
InsideRepo(t, mp) ==
  IF t = mp THEN Root ELSE SubSeq(t, Len(mp) + 1, Len(t))

\* q is p without its last component, "/" when nothing else is left
IsParentOf(q, p) ==
  \E k \in 1..Len(p) :
    /\ p[k] = Slash
    /\ \A j \in (k+1)..Len(p) : p[j] # Slash
    /\ k < Len(p)
    /\ q = IF k = 1 THEN Root ELSE SubSeq(p, 1, k - 1)

\* p has a component equal to c
HasComp(p, c) ==
  \E i \in 0..Len(p) :
    /\ i = 0 \/ p[i] = Slash
    /\ i + Len(c) <= Len(p)
    /\ SubSeq(p, i + 1, i + Len(c)) = c
    /\ i + Len(c) = Len(p) \/ p[i + Len(c) + 1] = Slash

\* absolute, normalized, free of "." and ".."
Canonical(p) ==
  /\ Len(p) > 0
  /\ p[1] = Slash
  /\ p = Root \/ p[Len(p)] # Slash
  /\ \A i \in 1..(Len(p) - 1) : ~(p[i] = Slash /\ p[i + 1] = Slash)
  /\ ~HasComp(p, Dot)
  /\ ~HasComp(p, DotDot)

----------------------------------------------------------------------------
(* C1: whenever expand_path reads an absolute symlink target, it goes on   *)
(* only if the target lies under the mountpoint of the attached            *)
(* repository, and then with the mountpoint taken off; any other absolute  *)
(* target makes the call fail with ENOENT without a further backend call.  *)
C1_AbsoluteTargetConfined ==
  hist.absTarget # NoPath =>
    IF WithinMount(hist.absTarget, ctxmp)
      THEN hist.absCont = InsideRepo(hist.absTarget, ctxmp)
      ELSE /\ hist.absCont = NoPath
           /\ hist.afterAbs = 0
           /\ Done => last.rc = -1 /\ last.errno = ENOENT

(* C2: ".." on an expanded parent "/" fails with ENOENT, and so does the   *)
(* whole call; on any other expanded parent it yields that parent without  *)
(* its last component, "/" when nothing else is left.                      *)
C2_DotDotStopsAtRoot ==
  /\ ev.type = "dotdot" =>
       IF ev.path = Root
         THEN ev.rc = -1 /\ errno = ENOENT /\ ret.rc = -1
         ELSE ev.rc = 0 /\ ret.rc = 0 /\ ret.out = ev.out
              /\ IsParentOf(ev.out, ev.path)
  /\ (hist.ddRoot /\ Done) => (last.rc = -1 /\ last.errno = ENOENT)

\* ".." climbing above the root out of a relative symlink target
C2_Witness ==
  ev.type = "dotdot" /\ ev.path = Root /\ ev.depth > 0 /\ ev.rc = -1

(* C3: every path a successful expand_path hands back, and so the path     *)
(* cvmfs_stat resolves, is canonical: absolute, normalized, without "."    *)
(* and "..".                                                               *)
C3_ResultCanonical ==
  /\ (ret.valid /\ ret.rc = 0) => Canonical(ret.out)
  /\ (Done /\ last.name \in PathOps /\ last.resolved) => Canonical(last.lpath)

\* a result produced through a symlink and ".."
C3_Witness ==
  /\ Done /\ last.name \in PathOps /\ last.resolved
  /\ last.path = <<"/","x","/","y","/","l">>
  /\ last.lpath = <<"/","x","/","t">>


\* number of pieces of p between slashes, none for the empty string
NumComps(p) ==
  IF p = Empty THEN 0
  ELSE Cardinality({i \in 1..Len(p) : p[i] = Slash}) + 1

\* a step that calls expand_path from within expand_path: the new innermost
\* activation against the one that made the call
CallDescends ==
  (Running /\ stack' # << >> /\ ev'.type \in {"enter", "readlink"}
     /\ Len(stack') >= Len(stack) /\ stack' # stack)
  => LET caller == stack[Len(stack)]
         callee == stack'[Len(stack')]
     IN \/ /\ callee.depth = caller.depth
           /\ NumComps(callee.path) < NumComps(caller.path)
        \/ /\ callee.depth = caller.depth + 1
           /\ callee.depth <= kSymlinkLimit + 1

DepthBounded == \A i \in 1..Len(stack) : stack[i].depth <= kSymlinkLimit + 1

SelfLoop == MkFS(BaseEntries \cup {Link(<<"/","l">>, <<"l">>)}, 0)
MutualLoop == MkFS(BaseEntries \cup {Link(<<"/","l">>, <<"k">>)}, 0)

\* a resolution that only ever saw a cycle of symlinks ends with ELOOP
CycleEndsInLoopError ==
  (Done /\ nchanges = 0 /\ fs \in {SelfLoop, MutualLoop}
     /\ last.name = "stat" /\ last.path = <<"/","l","/",".">>)
  => (last.rc = -1 /\ last.errno = ELOOP)

(* C4: every call terminates, also on cyclic symlinks and when the content *)
(* of the backend changes under the resolution: each call of expand_path   *)
(* from expand_path has fewer path components at the same depth or is one  *)
(* level deeper, the depth never passes the limit by more than one, and a  *)
(* cycle of symlinks ends with ELOOP.                                      *)
C4_ExpandTerminates ==
  /\ (op # Idle) ~> (op = Idle)
  /\ [][CallDescends]_vars
  /\ [](DepthBounded /\ CycleEndsInLoopError)

\* a cycle was followed up to the limit while the backend changed under it
C4_Witness ==
  /\ Done /\ nchanges > 0 /\ last.rc = -1 /\ last.errno = ELOOP
  /\ last.path = <<"/","l","/",".">>

(* C5: a chain of L symlinks ending at a regular file resolves when        *)
(* L <= 1000 and fails with ELOOP when L = 1001, and no link target is     *)
(* read at a depth beyond the limit.                                       *)
C5_ChainOfLinks ==
  /\ (Done /\ fs.chain > 0 /\ last.name = "stat" /\ last.path = <<"/","1">>) =>
       /\ fs.chain <= kSymlinkLimit =>
            last.rc = 0 /\ last.lpath = Root \o Dec(fs.chain + 1)
       /\ fs.chain = kSymlinkLimit + 1 => last.rc = -1 /\ last.errno = ELOOP
  /\ (ev.type = "readlink" /\ ev.rc = 0) => ev.depth <= kSymlinkLimit

----------------------------------------------------------------------------
\* the prefixes of p that end before a slash or at the end of p, "/" aside
Prefixes(p) ==
  {SubSeq(p, 1, k) : k \in {k \in 2..Len(p) : k = Len(p) \/ p[k + 1] = Slash}}

Present(f, p) == Lookup(f, p).kind \in {"dir", "file"}
IsSymlink(f, p) == Lookup(f, p).kind \in {"link", "badlink"}

\* canonical, and every prefix an entry of the backend that is no symlink
AlreadyCanonical(f, p) ==
  /\ Canonical(p)
  /\ Present(f, Root)
  /\ \A q \in Prefixes(p) : Present(f, q)

(* C6: cvmfs_stat resolves a path that is already canonical in the backend *)
(* to that very path, and resolves a path it resolved before to itself.    *)
C6_Idempotent ==
  /\ (Done /\ last.name \in PathOps /\ AlreadyCanonical(fs, last.path)) =>
       (last.resolved /\ last.lpath = last.path)
  /\ (Done /\ prev.valid /\ prev.name \in PathOps /\ prev.resolved
        /\ last.name \in PathOps /\ last.path = prev.lpath) =>
       (last.resolved /\ last.lpath = last.path)

\* the result of a resolution through a symlink, resolved again
C6_Witness ==
  /\ Done /\ prev.valid /\ prev.name \in PathOps /\ prev.resolved
  /\ prev.path = <<"/","d","/","l">> /\ prev.lpath = <<"/","x","/","t">>
  /\ last.name \in PathOps /\ last.path = prev.lpath
  /\ last.resolved /\ last.lpath = last.path

----------------------------------------------------------------------------
\* the pieces of s between slashes
RECURSIVE Split(_)
Split(s) ==
  IF ~HasSlash(s) THEN <<s>>
  ELSE LET i == CHOOSE i \in 1..Len(s) :
                  s[i] = Slash /\ \A j \in 1..(i-1) : s[j] # Slash
       IN <<SubSeq(s, 1, i - 1)>> \o Split(SubSeq(s, i + 1, Len(s)))

\* absolute and without empty component
PlainPath(p) ==
  /\ Len(p) > 1 /\ p[1] = Slash
  /\ \A i \in 2..Len(Split(p)) : Split(p)[i] # Empty

Child(cur, c) == (IF cur = Root THEN cur ELSE cur \o <<Slash>>) \o c

\* the directory reached by walking the components cs from cur by name
\* alone, NoPath when the walk climbs above "/"
RECURSIVE Walk(_, _)
Walk(cs, cur) ==
  IF cs = << >> \/ cur = NoPath THEN cur
  ELSE IF Head(cs) = Dot THEN Walk(Tail(cs), cur)
  ELSE IF Head(cs) = DotDot
    THEN Walk(Tail(cs),
              IF cur = Root THEN NoPath
              ELSE IF GetParentPath(cur) = Empty THEN Root
              ELSE GetParentPath(cur))
  ELSE Walk(Tail(cs), Child(cur, Head(cs)))

LexNorm(p) == Walk(Tail(Split(p)), Root)

\* every entry the walk passes is in the backend and is no symlink
WalkIsPlain(f, p) ==
  \A n \in 1..Len(Split(p)) :
    LET q == Walk(Tail(SubSeq(Split(p), 1, n)), Root)
    IN q # NoPath /\ Present(f, q)

(* C7: on a path without symlinks cvmfs_stat resolves the path to its      *)
(* lexical normalization, "." being the expansion of its parent (also      *)
(* right under the root) with no GetAttr issued for the "." itself.        *)
C7_LexicalNormalization ==
  (op # Idle \/ last.valid) =>
    LET p == IF op # Idle THEN op.path ELSE last.path
        n == IF op # Idle THEN op.name ELSE last.name
    IN (n \in PathOps /\ PlainPath(p) /\ WalkIsPlain(fs, p)) =>
         /\ \A i \in 1..Len(attrSeq) : GetFileName(attrSeq[i]) # Dot
         /\ Done => (last.resolved /\ last.lpath = LexNorm(p))

(* C8: a relative symlink target is resolved against the directory of the  *)
(* symlink, whose place is the already expanded candidate: the resolution  *)
(* goes on with that directory, "/" and the target; /d being a symlink to  *)
(* x/y and /x/y/l one to ../t, /d/l resolves to /x/t.                      *)
C8_RelativeToLinkDirectory ==
  /\ (ev.type = "readlink" /\ ev.rc = 0 /\ ~IsAbsolute(ev.target)) =>
       /\ \A q \in Prefixes(ev.path) \ {ev.path} : Present(fs, q)
       /\ \E k \in 1..Len(ev.path) :
            /\ ev.path[k] = Slash
            /\ \A j \in (k+1)..Len(ev.path) : ev.path[j] # Slash
            /\ ev.out = SubSeq(ev.path, 1, k - 1) \o <<Slash>> \o ev.target
       /\ Running /\ Top.path = ev.out
  /\ (Done /\ last.name \in PathOps /\ last.path = <<"/","d","/","l">>) =>
       (last.resolved /\ last.lpath = <<"/","x","/","t">>)

C8_Witness ==
  /\ Done /\ last.name \in PathOps /\ last.path = <<"/","d","/","l">>
  /\ last.lpath = <<"/","x","/","t">>
  /\ InSeq(<<"/","x","/","y","/","l">>, attrSeq)

(* C9: GetAttr is only issued on a candidate all of whose shorter prefixes *)
(* were asked about before and are entries that are no symlinks, and when  *)
(* cvmfs_stat has resolved a path, GetAttr was issued on each of its       *)
(* prefixes, shorter ones first.                                           *)
C9_AttrOnEveryPrefix ==
  /\ \A i \in 1..Len(attrSeq) :
       \A q \in Prefixes(attrSeq[i]) \ {attrSeq[i]} :
         /\ Present(fs, q)
         /\ \E j \in 1..(i-1) : attrSeq[j] = q
  /\ (Done /\ last.name \in PathOps /\ last.resolved) =>
       \A q \in Prefixes(last.lpath) : InSeq(q, attrSeq)

\* a result three levels deep reached through two symlinks
C9_Witness ==
  /\ Done /\ last.name \in PathOps /\ last.resolved
  /\ last.path = <<"/","d","/","l">>
  /\ attrSeq = << <<"/","d">>, <<"/","x">>, <<"/","x","/","y">>,
                  <<"/","x","/","y","/","l">>, <<"/","x","/","t">> >>

(* C10: when both resolve a path with a parent component, expand_ppath and *)
(* expand_path give the same path if the final component is no symlink     *)
(* and different paths if it is one.                                       *)
C10_ParentFullDistinction ==
  (Done /\ prev.valid /\ prev.name \in PPathOps /\ prev.resolved
     /\ last.name \in PathOps /\ last.path = prev.path /\ last.resolved
     /\ GetParentPath(last.path) # Empty)
  => IF IsSymlink(fs, prev.lpath)
       THEN prev.lpath # last.lpath
       ELSE prev.lpath = last.lpath

----------------------------------------------------------------------------
(* C11: the path expand_ppath produces for cvmfs_lstat and cvmfs_readlink, *)
(* which they hand to the backend, is canonical for every caller path:     *)
(* absolute, normalized, without "." and "..", never above the root.       *)
C11_PPathResultCanonical ==
  /\ (op # Idle /\ op.name \in PPathOps /\ op.pc = "delegate") =>
       Canonical(op.lpath)
  /\ (Done /\ last.name \in PPathOps /\ last.resolved) => Canonical(last.lpath)

(* C12: while the backend content stays as it is, every path a successful  *)
(* expand_path hands back, also out of a "." or ".." step, is an entry     *)
(* that is no symlink, and so is the path cvmfs_stat passes to GetAttr.    *)
C12_ResultNotSymlink ==
  /\ (ret.valid /\ ret.rc = 0) => ~IsSymlink(fs, ret.out)
  /\ (op # Idle /\ op.name \in PathOps /\ op.pc = "delegate") =>
       ~IsSymlink(fs, op.lpath)
  /\ (Done /\ last.name \in PathOps /\ last.resolved) =>
       (~IsSymlink(fs, last.lpath) /\ ~CtxGetAttr(fs, last.lpath).islnk)

\* a result out of a ".." step behind a symlink to a directory
C12_Witness ==
  /\ Done /\ last.name \in PathOps /\ last.resolved /\ last.rc = 0
  /\ last.path = <<"/","d","/",".",".">>
  /\ last.lpath = <<"/","x">>

(* C13: once a GetAttr or Readlink of the resolution has failed with code  *)
(* rc, the resolution issues no further backend call, every activation of  *)
(* expand_path returns failure, the backend operation of the call is not   *)
(* invoked, and the cvmfs_* call returns -1 with errno equal to -rc.       *)
C13_BackendErrorForwarded ==
  hist.fail # 0 =>
    /\ hist.afterFail = 0 /\ hist.ops = 0
    /\ errno = -hist.fail
    /\ ret.valid => ret.rc = -1
    /\ Done => (last.rc = -1 /\ ~last.resolved /\ last.errno = -hist.fail)

\* a GetAttr failing with EIO two activations below the one of the call
C13_Witness ==
  /\ Done /\ hist.fail = -EIO
  /\ last.path = <<"/","l","/",".",".">>
  /\ last.rc = -1 /\ last.errno = EIO

(* C19: within one cvmfs_* call expand_path issues at most 1001 Readlink   *)
(* calls, the depth limit plus one, however many components of the path    *)
(* or of the link targets are symlinks.                                    *)
C19_ReadlinksBounded == hist.readlinks <= kSymlinkLimit + 1

(* C14: cvmfs_open, cvmfs_stat, cvmfs_lstat, cvmfs_readlink and            *)
(* cvmfs_listdir invoke their backend operation at most once, only after   *)
(* the resolution succeeded and on the path it produced; when the          *)
(* resolution fails they return -1 without invoking it. cvmfs_close        *)
(* resolves no path and issues no GetAttr and no Readlink.                 *)
C14_CanonicalizeThenDelegate ==
  /\ hist.ops <= 1
  /\ hist.ops = 1 => Done
  /\ (hist.ops = 1 /\ last.name # "close") =>
       (last.resolved /\ hist.opPath = hist.resolvedTo /\ hist.fail = 0)
  /\ (Done /\ last.name # "close" /\ ~last.resolved) =>
       (last.rc = -1 /\ hist.ops = 0)
  /\ (Done /\ last.name = "close") =>
       (attrSeq = << >> /\ hist.readlinks = 0 /\ hist.resolvedTo = NoPath)

\* cvmfs_open on a symlink to a file: the backend opens the file
C14_Witness ==
  /\ Done /\ last.name = "open" /\ last.path = <<"/","l">>
  /\ hist.ops = 1 /\ hist.opPath = <<"/","t">> /\ last.rc = FirstFd

(* C15: cvmfs_remount calls RemountStart exactly once and returns 0        *)
(* exactly when that call yields kLoadNew or kLoadUp2Date, -1 otherwise.   *)
C15_RemountResult ==
  /\ remount.calls <= 1
  /\ (remount.pc = "idle" /\ remount.log # << >>) =>
       /\ remount.calls = 1
       /\ remount.rc \in {0, -1}
       /\ remount.rc = 0 <=> remount.retval \in {"kLoadNew", "kLoadUp2Date"}
  /\ \A i \in 1..Len(remount.log) :
       remount.log[i][2] = 0 <=>
         remount.log[i][1] \in {"kLoadNew", "kLoadUp2Date"}

\* a remount that found the catalog up to date after one that failed
C15_Witness ==
  /\ remount.pc = "idle" /\ Len(remount.log) = 2
  /\ remount.log[1] = <<"kLoadFail", -1>>
  /\ remount.log[2] = <<"kLoadUp2Date", 0>>
  /\ remount.rc = 0 /\ remount.calls = 1

(* C16: the mountpoint a resolution reads for a context is the one the     *)
(* context was attached with, and it stays that one while the context is   *)
(* attached, whatever other contexts are attached and detached meanwhile.  *)
C16_MountpointOfContext ==
  \A c \in CtxIds :
    (ctxs[c].attached /\ ctxs[c].read # NoPath) => ctxs[c].read = ctxs[c].mp

----------------------------------------------------------------------------
\* parse_options has returned 0
ParsedOk == opt.pc \in {"parsed", "returned"} /\ opt.result = 0

\* the option string names the key
KeyGiven(k) == \E i \in 1..Len(opt.applied) : opt.applied[i][1] = k

(* C17: whenever parse_options of the repository options succeeds, the     *)
(* mountpoint is not empty and does not end with a slash, and it is        *)
(* "/cvmfs/" and repo_name without trailing slashes when the option string *)
(* has no mountpoint key and repo_name is set.                             *)
C17_MountpointAfterParsing ==
  ParsedOk =>
    /\ opt.o.mountpoint # Empty
    /\ opt.o.mountpoint[Len(opt.o.mountpoint)] # Slash
    /\ (~KeyGiven(k_mountpoint) /\ opt.o.repo_name # Empty) =>
         opt.o.mountpoint = StripTrailingSlashes(CvmfsPrefix \o opt.o.repo_name)

\* the tokens of the option string that carry a name or a value
Carries(id) == TokenTable[id].kind # "skip"
Expected == SelectSeq(opt.tokens, Carries)

\* how many of them set_option is called with: up to the first one it
\* refuses
ExpectedCalls ==
  IF \E i \in 1..Len(Expected) : TokenTable[Expected[i]].kind = "bad"
    THEN CHOOSE i \in 1..Len(Expected) :
           /\ TokenTable[Expected[i]].kind = "bad"
           /\ \A j \in 1..(i - 1) : TokenTable[Expected[j]].kind # "bad"
    ELSE Len(Expected)

ParseOver == opt.pc \in {"failed", "parsed", "returned"}

\* set_option was called with the tokens in their order, the skipped ones
\* left out, up to the first one refused
AppliedInOrder ==
  /\ Len(opt.applied) <= ExpectedCalls
  /\ \A i \in 1..Len(opt.applied) :
       opt.applied[i] = <<TokenTable[Expected[i]].name,
                          TokenTable[Expected[i]].value>>
  /\ ParseOver =>
       /\ Len(opt.applied) = ExpectedCalls
       /\ opt.result # 0 <=>
            \E i \in 1..Len(Expected) : TokenTable[Expected[i]].kind = "bad"
       /\ opt.result # 0 => opt.pc \in {"failed", "returned"}

InLoop == opt.pc \in {"top", "name", "value", "dispatch"}

\* "next" moves forward with every character taken, "options" with every
\* pass of the loop, and neither leaves the string
PointerAdvances ==
  /\ (opt.pc \in {"name", "value"} /\ opt'.pc = opt.pc) => opt'.next > opt.next
  /\ (opt.pc = "dispatch" /\ opt'.pc = "top") => opt'.pos > opt.pos
  /\ opt'.next >= opt.next \/ opt.pc \in {"idle", "top"}
  /\ opt'.pos <= Len(opt'.input) + 1 /\ opt'.next <= Len(opt'.input) + 1

\* no context when parsing failed or the url is empty
NoContextWithoutUrl ==
  opt.pc = "returned" =>
    ((opt.result # 0 \/ opt.o.url = Empty) => opt.ctx = "NULL")

(* C18: parse_options takes the comma-separated tokens from left to right  *)
(* and terminates; a token without name and value is skipped; the first    *)
(* token set_option refuses ends parsing with failure and no later token   *)
(* is applied; cvmfs_attach_repo returns no context when parsing failed or *)
(* the url is empty.                                                       *)
C18_OptionParsing ==
  /\ [](AppliedInOrder /\ NoContextWithoutUrl)
  /\ [][PointerAdvances]_vars
  /\ InLoop ~> (opt.pc = "returned")

\* an empty token skipped, then a refused token before one that is not
\* applied: ",\x=1,url=u"
C18_Witness ==
  /\ opt.pc = "returned" /\ opt.tokens = <<5, 7, 1>>
  /\ opt.applied = << <<<<"x">>, <<"1">>>> >>
  /\ opt.result = -1 /\ opt.ctx = "NULL"
  /\ opt.o.mountpoint = Empty

----------------------------------------------------------------------------
(* C20: in verify mode the letter command returns 0 only if a letter text  *)
(* was obtained and the verification made last succeeded: Letter::Verify   *)
(* was ok, the whitelist not expired and the certificate verified (3, 4    *)
(* and 5 otherwise); it does not return 0 when the standard input ends     *)
(* before a whole line was read and no letter was verified.                *)
C20_VerifyExitCode ==
  (letter.pc = "returned" /\ letter.ret \notin {1, 2}) =>
    /\ letter.ret = 0 =>
         (letter.verified /\ letter.lastv.ok /\ ~letter.lastv.expired
            /\ letter.lastv.cert)
    /\ letter.verified =>
         /\ ~letter.lastv.ok => letter.ret = 3
         /\ (letter.lastv.ok /\ letter.lastv.expired) => letter.ret = 4
         /\ (letter.lastv.ok /\ ~letter.lastv.expired /\ ~letter.lastv.cert) =>
              letter.ret = 5

----------------------------------------------------------------------------
(* C21: in sign mode, when the private key does not load with the password *)
(* given, a password is asked for at most 3 times; nothing is asked once   *)
(* a load succeeded; after 3 failed tries the command has returned 2 and   *)
(* signed nothing; a letter is signed only after the private key loaded    *)
(* and KeysMatch held.                                                     *)
PromptsBounded == letter.prompts <= 3

GivesUpAfterThree ==
  letter.failed >= 3 =>
    (letter.pc = "returned" /\ letter.ret = 2 /\ ~letter.signed)

SignedOnlyWithKey == letter.signed => (letter.loaded /\ letter.keysMatch)

StopsAtFirstLoad ==
  letter.loaded =>
    (letter'.prompts = letter.prompts /\ letter'.failed = letter.failed
       /\ letter'.loaded)

C21_PasswordRetries ==
  /\ [](PromptsBounded /\ GivesUpAfterThree /\ SignedOnlyWithKey)
  /\ [][StopsAtFirstLoad]_vars

C21_Witness ==
  /\ letter.pc = "returned" /\ letter.ret = 2
  /\ letter.prompts = 3 /\ letter.failed = 3
  /\ ~letter.loaded /\ ~letter.signed

====
